---------------------------- MODULE Spec2Model ----------------------------
(***************************************************************************)
(* Model of the GitHub webhook pipeline of src/github/event.go:            *)
(* Webhook.ParsePayload and the helpers it calls (getGitHubEvent,          *)
(* getGitHubHandler, verifySignature, readPayload, the decode switch and   *)
(* runProcessPayloadFunc).                                                 *)
(*                                                                         *)
(* Strings and byte slices are sequences of one-character strings.  One    *)
(* request is in flight at a time; pc is the position of ParsePayload.     *)
(***************************************************************************)
EXTENDS Naturals, Sequences, FiniteSets

\* ------------------------------------------------------------------ bounds

\* Longest request body, in bytes.
MaxBodyLen == 3

\* Hex digits of the modelled digest (hex.EncodeToString of mac.Sum).
DigestHexLen == 3

\* signature[5:] : the length of the "sha1=" prefix that is cut off.
PrefixLen == 5

\* ------------------------------------------------------------- vocabulary

\* The Event constants.
Vocabulary ==
    { "commit_comment", "create", "delete", "deployment", "deployment_status",
      "fork", "gollum", "installation", "integration_installation",
      "issue_comment", "issues", "label", "member", "membership", "milestone",
      "organization", "org_block", "page_build", "ping", "project_card",
      "project_column", "project", "public", "pull_request",
      "pull_request_review", "pull_request_review_comment", "push", "release",
      "repository", "status", "team", "team_add", "watch" }

\* The payload type each case of the switch in ParsePayload declares.
SchemaOf(event) ==
    CASE event = "commit_comment"              -> "CommitCommentPayload"
      [] event = "create"                      -> "CreatePayload"
      [] event = "delete"                      -> "DeletePayload"
      [] event = "deployment"                  -> "DeploymentPayload"
      [] event = "deployment_status"           -> "DeploymentStatusPayload"
      [] event = "fork"                        -> "ForkPayload"
      [] event = "gollum"                      -> "GollumPayload"
      [] event \in {"installation", "integration_installation"}
                                               -> "InstallationPayload"
      [] event = "issue_comment"               -> "IssueCommentPayload"
      [] event = "issues"                      -> "IssuesPayload"
      [] event = "label"                       -> "LabelPayload"
      [] event = "member"                      -> "MemberPayload"
      [] event = "membership"                  -> "MembershipPayload"
      [] event = "milestone"                   -> "MilestonePayload"
      [] event = "organization"                -> "OrganizationPayload"
      [] event = "org_block"                   -> "OrgBlockPayload"
      [] event = "page_build"                  -> "PageBuildPayload"
      [] event = "ping"                        -> "PingPayload"
      [] event = "project_card"                -> "ProjectCardPayload"
      [] event = "project_column"              -> "ProjectColumnPayload"
      [] event = "project"                     -> "ProjectPayload"
      [] event = "public"                      -> "PublicPayload"
      [] event = "pull_request"                -> "PullRequestPayload"
      [] event = "pull_request_review"         -> "PullRequestReviewPayload"
      [] event = "pull_request_review_comment" -> "PullRequestReviewCommentPayload"
      [] event = "push"                        -> "PushPayload"
      [] event = "release"                     -> "ReleasePayload"
      [] event = "repository"                  -> "RepositoryPayload"
      [] event = "status"                      -> "StatusPayload"
      [] event = "team"                        -> "TeamPayload"
      [] event = "team_add"                    -> "TeamAddPayload"
      [] event = "watch"                       -> "WatchPayload"
      [] OTHER                                 -> "none"

\* The switch with a default branch that decodes and dispatches.
HasCase_Default(event) == TRUE

\* Whether the switch in ParsePayload has a case for the event.
HasCase(event) == event \in Vocabulary

\* ------------------------------------------------------------------ bytes

\* The bytes a body is made of: the braces of a JSON object and "z", which
\* stands for one member  "zen":"x"  of the object.
BodyBytes == {"{", "}", "z"}

BoundedSeq(S, n) == UNION { [1..k -> S] : k \in 0..n }

Bodies == BoundedSeq(BodyBytes, MaxBodyLen)

\* hook.secret of the registries of the model; <<>> is "no secret".
Secrets == { <<>>, <<"k">>, <<"j">> }

ByteCode(b) ==
    CASE b = "{" -> 1
      [] b = "}" -> 2
      [] b = "z" -> 3
      [] b = "k" -> 1
      [] b = "j" -> 2
      [] OTHER   -> 0

RECURSIVE Pow(_, _)
Pow(b, e) == IF e = 0 THEN 1 ELSE b * Pow(b, e - 1)

\* A byte string as a number (bijective base 4): distinct strings of the
\* model get distinct numbers.
RECURSIVE BytesCode(_)
BytesCode(s) ==
    IF s = <<>> THEN 0 ELSE ByteCode(s[1]) + 4 * BytesCode(Tail(s))

HexDigit(n) ==
    <<"0", "1", "2", "3", "4", "5", "6", "7",
      "8", "9", "a", "b", "c", "d", "e", "f">>[n + 1]

\* hex.EncodeToString of a digest of w hex digits.
RECURSIVE EncodeToString(_, _)
EncodeToString(n, w) ==
    IF w = 0 THEN <<>>
    ELSE EncodeToString(n \div 16, w - 1) \o <<HexDigit(n % 16)>>

\* mac := hmac.New(sha1.New, key); mac.Write(msg); mac.Sum(nil) .  The keyed
\* digest is idealised: a function of key and message that is free of
\* collisions on the strings of the model, cut to DigestHexLen hex digits.
HmacSum(key, msg) ==
    (BytesCode(key) * Pow(4, MaxBodyLen + 1) + BytesCode(msg))
        % Pow(16, DigestHexLen)

\* hex.EncodeToString(mac.Sum(nil)) for every key and message, computed once.
HexMACs ==
    [ key \in Secrets |->
        [ msg \in Bodies |-> EncodeToString(HmacSum(key, msg), DigestHexLen) ] ]

\* expectedMAC := hex.EncodeToString(mac.Sum(nil))
ExpectedMAC(key, msg) == HexMACs[key][msg]

\* hmac.Equal: equal length and equal bytes.
HmacEqual(a, b) ==
    /\ Len(a) = Len(b)
    /\ \A i \in 1..Len(a) : a[i] = b[i]

\* signature[5:] , for a signature of at least five characters.
StripPrefix(signature) == SubSeq(signature, PrefixLen + 1, Len(signature))


\* ------------------------------------------------------------------- JSON

\* What json.Unmarshal accepts: here an object  { member* } .
ValidJSON(body) ==
    /\ Len(body) >= 2
    /\ body[1] = "{"
    /\ body[Len(body)] = "}"
    /\ \A i \in 2..(Len(body) - 1) : body[i] = "z"

\* The members a payload type has a field for: PingPayload has Zen and
\* InstallationPayload has Action.
FieldsOf(schema) ==
    IF schema \in {"PingPayload", "InstallationPayload"} THEN {"z"} ELSE {}

\* var p T; json.Unmarshal(payload, &p) with the error dropped: p keeps its
\* zero value when the body is not JSON, and members without a field in T
\* are skipped.
Unmarshal(schema, body) ==
    [ type   |-> schema,
      fields |-> IF ValidJSON(body)
                 THEN { body[i] : i \in 2..(Len(body) - 1) } \cap FieldsOf(schema)
                 ELSE {} ]

\* --------------------------------------------------------------- requests

\* The handlers an integrator registers, by event token; "x_custom" is not
\* one of the Event constants.
Registrable ==
    [ t \in {"ping", "installation", "integration_installation", "x_custom"} |->
        CASE t = "ping"                     -> "onPing"
          [] t = "installation"             -> "onInstallation"
          [] t = "integration_installation" -> "onIntegrationInstallation"
          [] OTHER                          -> "onCustom" ]

\* hook.eventFuncs of the registries of the model: any of these registered.
RegistryMaps ==
    { [t \in D |-> Registrable[t]] : D \in SUBSET DOMAIN Registrable }

\* X-GitHub-Event of the requests of the model; "" is an absent header.
RequestEvents ==
    {"", "ping", "push", "installation", "integration_installation", "x_custom"}

Sha1Prefix == <<"s", "h", "a", "1", "=">>
OtherPrefix == <<"m", "d", "5", "=", "=">>

\* "sha1=" followed by the hex HMAC of msg under key: what the sender of a
\* signed request puts into X-Hub-Signature.
Sign(key, msg) == Sha1Prefix \o ExpectedMAC(key, msg)

\* s with its last character replaced by another hex digit.
AlterLast(s) ==
    [s EXCEPT ![Len(s)] = IF s[Len(s)] = "0" THEN "1" ELSE "0"]

\* X-Hub-Signature of the requests that carry the body: absent, shorter than
\* the prefix, signed under a key for this body or for the empty body, the
\* digest under another prefix, one digit altered, one digit missing.
SignatureChoices(body) ==
    { <<>>, <<"s", "h", "a">> }
    \cup { Sign(k, m) : k \in Secrets \ {<<>>}, m \in {body, <<>>} }
    \cup { OtherPrefix \o ExpectedMAC(k, body) : k \in Secrets \ {<<>>} }
    \cup { AlterLast(Sign(<<"k">>, body)),
           SubSeq(Sign(<<"k">>, body), 1, PrefixLen + DigestHexLen - 1) }

\* No handler / no value.
NoHandler == "none"
NoPayload == [type |-> "none", fields |-> {}]
NoRequest == [event |-> "", signature |-> <<>>, body |-> <<>>, readErr |-> FALSE]

\* ------------------------------------------------------------------ state

VARIABLES
    secret,       \* hook.secret
    eventFuncs,   \* hook.eventFuncs
    req,          \* r: the request in flight
    pc,           \* the position of ParsePayload
    gitHubEvent,  \* ParsePayload's gitHubEvent
    fn,           \* ParsePayload's fn
    macInput,     \* the bytes whose MAC the signature matched, NoMac if none
    payload,      \* ParsePayload's payload
    results,      \* the value the switch unmarshalled into
    written,      \* w: the status codes http.Error wrote
    errs,         \* the errors the helpers returned
    calls,        \* the invocations of handlers, in order
    parked        \* req .. calls of a second invocation of ParsePayload

vars == <<secret, eventFuncs, req, pc, gitHubEvent, fn, macInput, payload,
          results, written, errs, calls, parked>>

registry == <<secret, eventFuncs>>

NoMac == <<"-">>

\* The byte slices the identifier payload of verifySignature can stand for.
\* It is not the body of the request: readPayload runs after verifySignature
\* and its result is a local variable of ParsePayload.
PayloadInScope == Bodies

\* The request, locals, response and handler calls of an invocation of
\* ParsePayload that has not got a request yet.
IdleLocals ==
    [ req |-> NoRequest, pc |-> "idle", gitHubEvent |-> "", fn |-> NoHandler,
      macInput |-> NoMac, payload |-> <<>>, results |-> NoPayload,
      written |-> <<>>, errs |-> <<>>, calls |-> <<>> ]

\* The values the state takes: the registry (hook), the request (r), the
\* locals of ParsePayload, the response writer (w) and the handler calls.
TypeOK ==
    /\ secret \in Secrets
    /\ eventFuncs \in RegistryMaps
    /\ req.event \in RequestEvents
    /\ req.body \in Bodies
    /\ req.signature \in SignatureChoices(req.body)
    /\ req.readErr \in BOOLEAN
    /\ pc \in {"idle", "getGitHubEvent", "getGitHubHandler", "verifySignature",
               "readPayload", "switch", "runProcessPayloadFunc", "done", "panic"}
    /\ gitHubEvent \in RequestEvents
    /\ fn \in {NoHandler} \cup {Registrable[t] : t \in DOMAIN Registrable}
    /\ macInput \in PayloadInScope \cup {NoMac}
    /\ payload \in Bodies
    /\ results.type \in {"none"} \cup {SchemaOf(e) : e \in Vocabulary}
    /\ results.fields \subseteq BodyBytes
    /\ written \in BoundedSeq({400, 403, 500}, 1)
    /\ Len(errs) <= 1
    /\ Len(calls) <= 1
    /\ DOMAIN parked = DOMAIN IdleLocals

Init ==
    /\ secret \in Secrets
    /\ eventFuncs \in RegistryMaps
    /\ req = NoRequest
    /\ pc = "idle"
    /\ gitHubEvent = ""
    /\ fn = NoHandler
    /\ macInput = NoMac
    /\ payload = <<>>
    /\ results = NoPayload
    /\ written = <<>>
    /\ errs = <<>>
    /\ calls = <<>>
    /\ parked = IdleLocals

\* The bodies whose read is also modelled as failing (readPayload drops what
\* was read before the failure): nothing, a part of an object, an object.
InterruptedBodies == { <<>>, <<"{">>, <<"{", "}">> }

\* The HTTP server hands a request to ParsePayload.  Reading r.Body delivers
\* the body or, with readErr, fails.
Serve ==
    /\ pc = "idle"
    /\ \E ev \in RequestEvents, body \in Bodies :
         \E sig \in SignatureChoices(body),
            rerr \in {FALSE, (body \in InterruptedBodies)} :
            req' = [event |-> ev, signature |-> sig, body |-> body,
                    readErr |-> rerr]
    /\ pc' = "getGitHubEvent"
    /\ UNCHANGED <<registry, parked, gitHubEvent, fn, macInput, payload, results,
                   written, errs, calls>>

\* ParsePayload has returned (or its goroutine has ended) and the server is
\* ready for the next request.
Return ==
    /\ pc \in {"done", "panic"}
    /\ req' = NoRequest
    /\ pc' = "idle"
    /\ gitHubEvent' = ""
    /\ fn' = NoHandler
    /\ macInput' = NoMac
    /\ payload' = <<>>
    /\ results' = NoPayload
    /\ written' = <<>>
    /\ errs' = <<>>
    /\ calls' = <<>>
    /\ UNCHANGED <<registry, parked>>

\* getGitHubEvent without the test  len(event) == 0 .
getGitHubEvent_NoEmptyCheck ==
    /\ pc = "getGitHubEvent"
    /\ gitHubEvent' = req.event
    /\ pc' = "getGitHubHandler"
    /\ UNCHANGED <<registry, parked, req, fn, macInput, payload, results, written,
                   errs, calls>>

\* ParsePayload going on after getGitHubEvent returned an error.
getGitHubEvent_NoReturn ==
    /\ pc = "getGitHubEvent"
    /\ IF req.event = ""
       THEN /\ written' = Append(written, 400)
            /\ errs' = Append(errs, "Missing X-GitHub-Event Header")
       ELSE UNCHANGED <<written, errs>>
    /\ gitHubEvent' = req.event
    /\ pc' = "getGitHubHandler"
    /\ UNCHANGED <<registry, parked, req, fn, macInput, payload, results, calls>>

\* gitHubEvent, err := getGitHubEvent(w, r)
getGitHubEvent ==
    /\ pc = "getGitHubEvent"
    /\ IF req.event = ""
       THEN /\ written' = Append(written, 400)
            /\ errs' = Append(errs, "Missing X-GitHub-Event Header")
            /\ pc' = "done"
            /\ UNCHANGED gitHubEvent
       ELSE /\ gitHubEvent' = req.event
            /\ pc' = "getGitHubHandler"
            /\ UNCHANGED <<written, errs>>
    /\ UNCHANGED <<registry, parked, req, fn, macInput, payload, results, calls>>

\* getGitHubHandler taking the handler out of hook.eventFuncs.
getGitHubHandler_DeleteEntry ==
    /\ pc = "getGitHubHandler"
    /\ IF gitHubEvent \in DOMAIN eventFuncs
       THEN /\ fn' = eventFuncs[gitHubEvent]
            /\ eventFuncs' = [t \in DOMAIN eventFuncs \ {gitHubEvent} |->
                                eventFuncs[t]]
            /\ pc' = "verifySignature"
            /\ UNCHANGED errs
       ELSE /\ errs' = Append(errs, "Webhook Event not registered")
            /\ pc' = "done"
            /\ UNCHANGED <<fn, eventFuncs>>
    /\ UNCHANGED <<secret, parked, req, gitHubEvent, macInput, payload,
                   results, written, calls>>

\* getGitHubHandler with ok ignored: the nil handler of a missing key goes on.
getGitHubHandler_IgnoreOk ==
    /\ pc = "getGitHubHandler"
    /\ fn' = IF gitHubEvent \in DOMAIN eventFuncs
             THEN eventFuncs[gitHubEvent] ELSE NoHandler
    /\ pc' = "verifySignature"
    /\ UNCHANGED <<registry, parked, req, gitHubEvent, macInput, payload, results,
                   written, errs, calls>>

\* fn, err := getGitHubHandler(gitHubEvent)
getGitHubHandler ==
    /\ pc = "getGitHubHandler"
    /\ IF gitHubEvent \in DOMAIN eventFuncs
       THEN /\ fn' = eventFuncs[gitHubEvent]
            /\ pc' = "verifySignature"
            /\ UNCHANGED errs
       ELSE /\ errs' = Append(errs, "Webhook Event not registered")
            /\ pc' = "done"
            /\ UNCHANGED fn
    /\ UNCHANGED <<registry, parked, req, gitHubEvent, macInput, payload, results,
                   written, calls>>

\* The check of verifySignature with the prefix compared to "sha1=".
CheckMAC_RequireSha1 ==
    \E p \in PayloadInScope :
       IF Len(req.signature) < PrefixLen
       THEN /\ pc' = "panic"
            /\ UNCHANGED <<written, errs, macInput>>
       ELSE IF \/ SubSeq(req.signature, 1, PrefixLen) # Sha1Prefix
               \/ ~HmacEqual(StripPrefix(req.signature), ExpectedMAC(secret, p))
            THEN /\ written' = Append(written, 403)
                 /\ errs' = Append(errs, "HMAC verification failed")
                 /\ pc' = "done"
                 /\ UNCHANGED macInput
            ELSE /\ macInput' = p
                 /\ pc' = "readPayload"
                 /\ UNCHANGED <<written, errs>>

\* The check of verifySignature once a signature is present: MAC of payload,
\* signature[5:], hmac.Equal.
CheckMAC ==
    \E p \in PayloadInScope :
       IF Len(req.signature) < PrefixLen
       THEN \* signature[5:] is out of range: the goroutine panics
            /\ pc' = "panic"
            /\ UNCHANGED <<written, errs, macInput>>
       ELSE IF ~HmacEqual(StripPrefix(req.signature), ExpectedMAC(secret, p))
            THEN /\ written' = Append(written, 403)
                 /\ errs' = Append(errs, "HMAC verification failed")
                 /\ pc' = "done"
                 /\ UNCHANGED macInput
            ELSE /\ macInput' = p
                 /\ pc' = "readPayload"
                 /\ UNCHANGED <<written, errs>>

\* verifySignature without the test  len(signature) == 0 .
verifySignature_NoMissingCheck ==
    /\ pc = "verifySignature"
    /\ IF Len(secret) > 0
       THEN CheckMAC
       ELSE /\ pc' = "readPayload"
            /\ UNCHANGED <<written, errs, macInput>>
    /\ UNCHANGED <<registry, parked, req, gitHubEvent, fn, payload, results, calls>>

\* verifySignature without the test  len(hook.secret) > 0 .
verifySignature_NoSecretCheck ==
    /\ pc = "verifySignature"
    /\ IF Len(req.signature) = 0
       THEN /\ written' = Append(written, 403)
            /\ errs' = Append(errs, "Missing X-Hub-Signature required for HMAC verification")
            /\ pc' = "done"
            /\ UNCHANGED macInput
       ELSE CheckMAC
    /\ UNCHANGED <<registry, parked, req, gitHubEvent, fn, payload, results, calls>>

\* err := verifySignature(w, r)
verifySignature ==
    /\ pc = "verifySignature"
    /\ IF Len(secret) > 0
       THEN IF Len(req.signature) = 0
            THEN /\ written' = Append(written, 403)
                 /\ errs' = Append(errs, "Missing X-Hub-Signature required for HMAC verification")
                 /\ pc' = "done"
                 /\ UNCHANGED macInput
            ELSE CheckMAC
       ELSE /\ pc' = "readPayload"
            /\ UNCHANGED <<written, errs, macInput>>
    /\ UNCHANGED <<registry, parked, req, gitHubEvent, fn, payload, results, calls>>

\* readPayload without the test  len(payload) == 0 .
readPayload_NoEmptyCheck ==
    /\ pc = "readPayload"
    /\ IF req.readErr
       THEN /\ written' = Append(written, 500)
            /\ errs' = Append(errs, "Issue reading Payload")
            /\ pc' = "done"
            /\ UNCHANGED payload
       ELSE /\ payload' = req.body
            /\ pc' = "switch"
            /\ UNCHANGED <<written, errs>>
    /\ UNCHANGED <<registry, parked, req, gitHubEvent, fn, macInput, results, calls>>

\* readPayload answering with http.StatusBadRequest.
readPayload_Status400 ==
    /\ pc = "readPayload"
    /\ IF req.readErr \/ Len(req.body) = 0
       THEN /\ written' = Append(written, 400)
            /\ errs' = Append(errs, "Issue reading Payload")
            /\ pc' = "done"
            /\ UNCHANGED payload
       ELSE /\ payload' = req.body
            /\ pc' = "switch"
            /\ UNCHANGED <<written, errs>>
    /\ UNCHANGED <<registry, parked, req, gitHubEvent, fn, macInput, results, calls>>

\* payload, err := readPayload(w, r)
readPayload ==
    /\ pc = "readPayload"
    /\ IF req.readErr \/ Len(req.body) = 0
       THEN /\ written' = Append(written, 500)
            /\ errs' = Append(errs, "Issue reading Payload")
            /\ pc' = "done"
            /\ UNCHANGED payload
       ELSE /\ payload' = req.body
            /\ pc' = "switch"
            /\ UNCHANGED <<written, errs>>
    /\ UNCHANGED <<registry, parked, req, gitHubEvent, fn, macInput, results, calls>>

\* The switch with a payload type of its own for integration_installation.
Decode_IntegrationOwnType ==
    /\ pc = "switch"
    /\ IF HasCase(gitHubEvent)
       THEN /\ results' =
                 IF gitHubEvent = "integration_installation"
                 THEN Unmarshal("IntegrationInstallationPayload", payload)
                 ELSE Unmarshal(SchemaOf(gitHubEvent), payload)
            /\ pc' = "runProcessPayloadFunc"
       ELSE /\ pc' = "done"
            /\ UNCHANGED results
    /\ UNCHANGED <<registry, parked, req, gitHubEvent, fn, macInput, payload, written,
                   errs, calls>>

\* The switch with json.Unmarshal left out: the handler gets the zero value.
Decode_NoUnmarshal ==
    /\ pc = "switch"
    /\ IF HasCase(gitHubEvent)
       THEN /\ results' = [type |-> SchemaOf(gitHubEvent), fields |-> {}]
            /\ pc' = "runProcessPayloadFunc"
       ELSE /\ pc' = "done"
            /\ UNCHANGED results
    /\ UNCHANGED <<registry, parked, req, gitHubEvent, fn, macInput, payload, written,
                   errs, calls>>

\* switch gitHubEvent { case X: var p XPayload; json.Unmarshal(payload, &p)
Decode ==
    /\ pc = "switch"
    /\ IF HasCase(gitHubEvent)
       THEN /\ results' = Unmarshal(SchemaOf(gitHubEvent), payload)
            /\ pc' = "runProcessPayloadFunc"
       ELSE /\ pc' = "done"
            /\ UNCHANGED results
    /\ UNCHANGED <<registry, parked, req, gitHubEvent, fn, macInput, payload, written,
                   errs, calls>>

\* hd := webhooks.Header(r.Header)
Header(r) == [event |-> r.event, signature |-> r.signature]

\* hook.runProcessPayloadFunc(fn, p, hd)
runProcessPayloadFunc ==
    /\ pc = "runProcessPayloadFunc"
    /\ calls' = Append(calls, [fn |-> fn, results |-> results,
                               header |-> Header(req)])
    /\ pc' = "done"
    /\ UNCHANGED <<registry, parked, req, gitHubEvent, fn, macInput, payload, results,
                   written, errs>>

\* One step of ParsePayload.
ParsePayload ==
    \/ getGitHubEvent
    \/ getGitHubHandler
    \/ verifySignature
    \/ readPayload
    \/ Decode
    \/ runProcessPayloadFunc

Next == Serve \/ ParsePayload \/ Return

Spec == Init /\ [][Next]_vars

\* ------------------------------------------------- two invocations

\* The requests of the model with two invocations of ParsePayload on one
\* registry: no event header, a registered Event constant, a registered token
\* that is no Event constant; an empty body and an object; no signature, a
\* short one, the signature of the body under "k", that one altered.
ConcBodies == { <<>>, <<"{", "z", "}">> }

ConcRequests ==
    UNION { { [event |-> ev, signature |-> sig, body |-> b, readErr |-> FALSE] :
                ev \in {"", "ping", "x_custom"},
                sig \in { <<>>, <<"s", "h", "a">>, Sign(<<"k">>, b),
                          AlterLast(Sign(<<"k">>, b)) } } :
            b \in ConcBodies }

\* The HTTP server hands a request to the invocation that has none.
ServeConc ==
    /\ pc = "idle"
    /\ req' \in ConcRequests
    /\ pc' = "getGitHubEvent"
    /\ UNCHANGED <<registry, parked, gitHubEvent, fn, macInput, payload,
                   results, written, errs, calls>>

\* The scheduler goes from one invocation of ParsePayload to the other: each
\* has its own r, w and locals, and both have the one hook.
Switch ==
    /\ parked' = [ req |-> req, pc |-> pc, gitHubEvent |-> gitHubEvent,
                   fn |-> fn, macInput |-> macInput, payload |-> payload,
                   results |-> results, written |-> written, errs |-> errs,
                   calls |-> calls ]
    /\ req' = parked.req
    /\ pc' = parked.pc
    /\ gitHubEvent' = parked.gitHubEvent
    /\ fn' = parked.fn
    /\ macInput' = parked.macInput
    /\ payload' = parked.payload
    /\ results' = parked.results
    /\ written' = parked.written
    /\ errs' = parked.errs
    /\ calls' = parked.calls
    /\ UNCHANGED registry

\* Two invocations of ParsePayload on one registry, their steps interleaved
\* in every way.
NextConc == ServeConc \/ ParsePayload \/ Return \/ Switch

SpecConc == Init /\ [][NextConc]_vars

\* ------------------------------------------------------------ properties

MissingSignatureErr == "Missing X-Hub-Signature required for HMAC verification"
HMACFailedErr == "HMAC verification failed"

\* A request is in flight or has just been answered.
InFlight == pc # "idle"

\* ParsePayload has ended for the request.
Finished == pc \in {"done", "panic"}

\* verifySignature has been called and has ended (by return or by panic).
VerifyRan ==
    /\ fn # NoHandler
    /\ pc \in {"readPayload", "switch", "runProcessPayloadFunc", "done", "panic"}

\* verifySignature returned an error.
VerifyFailed ==
    /\ VerifyRan
    /\ errs # <<>>
    /\ errs[Len(errs)] \in {MissingSignatureErr, HMACFailedErr}

\* verifySignature returned nil.
VerifySucceeded == VerifyRan /\ pc # "panic" /\ ~VerifyFailed

\* The presented signature, after its five-character prefix, is the hex HMAC
\* of the body of the request under the secret of the registry.
SignatureOfBody ==
    /\ Len(req.signature) >= PrefixLen
    /\ StripPrefix(req.signature) = ExpectedMAC(secret, req.body)

\* C1: with a non-empty secret, a request whose presented signature (after
\* its five-character prefix) is not the hex HMAC of its body under the
\* secret never has a handler invoked.
C1_BadSignatureNeverDispatched ==
    (InFlight /\ Len(secret) > 0 /\ ~SignatureOfBody) => calls = <<>>

\* The second half of C1: such a request, once verifySignature has run for
\* it, ends with the single response 403.
C1_BadSignatureEnds403 ==
    (Len(secret) > 0 /\ ~SignatureOfBody /\ VerifyRan /\ pc = "done")
        => written = <<403>>

\* C2: with a non-empty secret, whenever ParsePayload is at or past the
\* decode step a signature check has succeeded, and it was computed over
\* exactly the bytes handed to the decoder.
C2_VerifiedBytesAreDecodedBytes ==
    (Len(secret) > 0 /\ pc \in {"switch", "runProcessPayloadFunc"})
        => /\ macInput # NoMac
           /\ macInput = payload

\* C3: for a non-empty secret S and body B, verifySignature returns nil when
\* the presented signature is "sha1=" and the hex HMAC of B under S, and
\* an error when it is the signature computed for another body B'.
C3_VerifyAcceptsExactlyOwnBody ==
    (Len(secret) > 0 /\ VerifyRan)
        => /\ req.signature = Sign(secret, req.body) => VerifySucceeded
           /\ \A b \in Bodies \ {req.body} :
                req.signature = Sign(secret, b) => VerifyFailed

\* C4: whatever the secret and the registered handlers, a request without
\* (or with an empty) X-GitHub-Event header has no handler invoked and ends
\* with the single response 400.
C4_MissingEventHeaderIs400 ==
    (InFlight /\ req.event = "")
        => /\ calls = <<>>
           /\ pc \in {"getGitHubEvent", "done"}
           /\ pc = "done" => written = <<400>>

C4_Witness ==
    /\ pc = "done"
    /\ req.event = ""
    /\ written = <<400>>
    /\ Len(secret) > 0
    /\ req.signature = Sign(secret, req.body)
    /\ ValidJSON(req.body)
    /\ DOMAIN eventFuncs # {}

\* C5: a request whose event token is one of the Event constants but has no
\* registered handler ends as "not registered": no handler is invoked and no
\* 5xx response (in fact no response) is written for it.
C5_UnregisteredIsNotFound ==
    (InFlight /\ req.event \in Vocabulary /\ req.event \notin DOMAIN eventFuncs)
        => /\ calls = <<>>
           /\ \A i \in 1..Len(written) : written[i] < 500
           /\ pc \in {"getGitHubEvent", "getGitHubHandler", "done"}
           /\ pc = "done" => errs = <<"Webhook Event not registered">>

C5_Witness ==
    /\ pc = "done"
    /\ req.event = "ping"
    /\ "ping" \notin DOMAIN eventFuncs
    /\ DOMAIN eventFuncs # {}
    /\ req.body = <<>>
    /\ errs = <<"Webhook Event not registered">>
    /\ written = <<>>

\* The one invocation C6 expects for the request in flight.
ExpectedCall ==
    [ fn      |-> eventFuncs[req.event],
      results |-> Unmarshal(SchemaOf(req.event), req.body),
      header  |-> Header(req) ]

\* C6: no request has more than one handler invocation; and a request with a
\* registered Event constant in its event header, for which verifySignature
\* returned nil and whose body was read, is non-empty and is JSON, ends with
\* exactly one invocation: of the handler registered for its token, with the
\* payload decoded from its body by the token's schema and its own headers.
C6_DispatchedExactlyOnce ==
    /\ Len(calls) <= 1
    /\ (/\ pc = "done"
        /\ req.event \in Vocabulary \cap DOMAIN eventFuncs
        /\ VerifySucceeded
        /\ ~req.readErr
        /\ ValidJSON(req.body))
         => calls = <<ExpectedCall>>

C6_Witness ==
    /\ pc = "done"
    /\ req.event = "ping"
    /\ Len(secret) > 0
    /\ DOMAIN eventFuncs = DOMAIN Registrable
    /\ req.body = <<"{", "z", "}">>
    /\ calls = << [ fn      |-> "onPing",
                    results |-> [type |-> "PingPayload", fields |-> {"z"}],
                    header  |-> [event |-> "ping",
                                 signature |-> req.signature] ] >>

\* C7: a request whose body is not JSON never has a handler invoked.
C7_MalformedBodyNotDispatched ==
    (InFlight /\ ~ValidJSON(req.body)) => calls = <<>>

\* C8: a request that reaches readPayload with an empty body, or whose body
\* read fails, has no handler invoked and ends with the single response 500.
C8_EmptyOrUnreadBodyIs500 ==
    (VerifySucceeded /\ (req.readErr \/ req.body = <<>>))
        => /\ calls = <<>>
           /\ pc \in {"readPayload", "done"}
           /\ pc = "done" => (written = <<500>> /\ errs = <<"Issue reading Payload">>)

C8_Witness ==
    /\ pc = "done"
    /\ VerifySucceeded
    /\ Len(secret) > 0
    /\ req.body = <<>>
    /\ ~req.readErr
    /\ written = <<500>>

C8_WitnessReadFails ==
    /\ pc = "done"
    /\ VerifySucceeded
    /\ req.readErr
    /\ ValidJSON(req.body)
    /\ written = <<500>>

\* C9: with a non-empty secret and an absent or empty X-Hub-Signature header,
\* verifySignature returns the missing-signature error, the single response
\* 403 is written and no handler is invoked.
C9_MissingSignatureIs403 ==
    (InFlight /\ Len(secret) > 0 /\ req.signature = <<>>)
        => /\ calls = <<>>
           /\ VerifyRan => /\ pc = "done"
                           /\ written = <<403>>
                           /\ errs = <<MissingSignatureErr>>

C9_Witness ==
    /\ pc = "done"
    /\ Len(secret) > 0
    /\ req.signature = <<>>
    /\ req.event = "ping"
    /\ ValidJSON(req.body)
    /\ written = <<403>>
    /\ errs = <<MissingSignatureErr>>

\* What ParsePayload does for a request when nothing depends on its
\* signature header: the responses written and the handler invoked with its
\* payload.
UnsignedOutcome(r) ==
    IF r.event = ""
    THEN [written |-> <<400>>, invoked |-> <<>>]
    ELSE IF r.event \notin DOMAIN eventFuncs
    THEN [written |-> <<>>, invoked |-> <<>>]
    ELSE IF r.readErr \/ r.body = <<>>
    THEN [written |-> <<500>>, invoked |-> <<>>]
    ELSE IF r.event \in Vocabulary
    THEN [written |-> <<>>,
          invoked |-> << <<eventFuncs[r.event],
                           Unmarshal(SchemaOf(r.event), r.body)>> >>]
    ELSE [written |-> <<>>, invoked |-> <<>>]

\* The outcome of the run that has ended.
Outcome ==
    [ written |-> written,
      invoked |-> [i \in 1..Len(calls) |-> <<calls[i].fn, calls[i].results>>] ]

\* C10: with an empty secret verifySignature returns nil for every request,
\* whatever its X-Hub-Signature header is (absent, too short, any value), and
\* the outcome of the request is a function of its event header and body
\* alone.
C10_UnsecuredIgnoresSignature ==
    Len(secret) = 0
        => /\ VerifyRan => VerifySucceeded
           /\ Finished => (pc = "done" /\ Outcome = UnsignedOutcome(req))

C10_Witness ==
    /\ pc = "done"
    /\ Len(secret) = 0
    /\ req.signature = <<>>
    /\ VerifySucceeded
    /\ Len(calls) = 1

C10_WitnessBadSignature ==
    /\ pc = "done"
    /\ Len(secret) = 0
    /\ Len(req.signature) \in 1..(PrefixLen - 1)
    /\ VerifySucceeded
    /\ Len(calls) = 1

\* C11: no request makes ParsePayload end abnormally: every run ends by a
\* return (a reported failure, or after the switch), never by a panic.
C11_NeverPanics == pc # "panic"

\* readPayload has been called and has returned.
ReadRan ==
    \/ payload # <<>>
    \/ errs # <<>> /\ errs[Len(errs)] = "Issue reading Payload"

\* C12: with a secret set, when signature verification starts the read of
\* the request body has completed or failed.
C12_ReadBeforeVerify ==
    (pc = "verifySignature" /\ Len(secret) > 0) => ReadRan

\* A helper of the pipeline returned an error for the request.
Failing == errs # <<>>

Current ==
    [ req |-> req, pc |-> pc, written |-> written, calls |-> calls ]

\* How an invocation ended, what it wrote and what it invoked.
OutcomeOf(l) ==
    [ ended   |-> l.pc,
      written |-> l.written,
      invoked |-> [i \in 1..Len(l.calls) |->
                      <<l.calls[i].fn, l.calls[i].results>>] ]

C14_SameOutcomeWithoutMAC ==
    (/\ Finished
     /\ parked.pc \in {"done", "panic"}
     /\ parked.req = req
     /\ \/ Len(secret) = 0
        \/ Len(req.signature) < PrefixLen
        \/ req.event \notin DOMAIN eventFuncs)
        => OutcomeOf(parked) = OutcomeOf(Current)

InstallationTokens == {"installation", "integration_installation"}

\* C15: the event tokens "installation" and "integration_installation" are
\* decoded with the same schema, InstallationPayload, so for every body the
\* two requests hand equal decoded payloads to their handlers; only the
\* handler, the one registered for the token of the request, differs.
C15_InstallationAlias ==
    /\ \A t \in InstallationTokens : SchemaOf(t) = "InstallationPayload"
    /\ (calls # <<>> /\ req.event \in InstallationTokens)
          => /\ calls[1].results = Unmarshal("InstallationPayload", req.body)
             /\ calls[1].fn = eventFuncs[req.event]

C15_Witness ==
    /\ pc = "done"
    /\ req.event = "integration_installation"
    /\ InstallationTokens \subseteq DOMAIN eventFuncs
    /\ req.body = <<"{", "z", "}">>
    /\ Len(calls) = 1
    /\ calls[1].fn = "onIntegrationInstallation"
    /\ calls[1].results = [type |-> "InstallationPayload", fields |-> {"z"}]

\* The place of a stage in ParsePayload.
StageNo(p) ==
    CASE p = "getGitHubEvent"        -> 1
      [] p = "getGitHubHandler"      -> 2
      [] p = "verifySignature"       -> 3
      [] p = "readPayload"           -> 4
      [] p = "switch"                -> 5
      [] p = "runProcessPayloadFunc" -> 6
      [] OTHER                       -> 0

\* One step of a run: from a stage to the next stage or to the end, to the
\* end when the stage returned an error or wrote a response, and from the end
\* to nothing but the next request.
StageStep ==
    /\ pc = "idle" => pc' = "getGitHubEvent"
    /\ StageNo(pc) > 0
          => \/ StageNo(pc') = StageNo(pc) + 1
             \/ pc' \in {"done", "panic"}
    /\ (StageNo(pc) > 0 /\ (errs' # errs \/ written' # written))
          => pc' = "done"
    /\ Finished => pc' = "idle"

\* C16: the stages run in the order getGitHubEvent, getGitHubHandler,
\* verifySignature, readPayload, switch, runProcessPayloadFunc, none is
\* skipped or run again, and a stage that fails ends the run; so a request
\* without event header gets 400 whatever its signature, and a request for an
\* unregistered event gets no 403 and no signature check.
C16_StagesInOrder ==
    [][ /\ StageStep
        /\ (Finished /\ req.event = "")
              => /\ written = <<400>>
                 /\ errs = <<"Missing X-GitHub-Event Header">>
                 /\ fn = NoHandler /\ macInput = NoMac
        /\ (Finished /\ req.event # "" /\ req.event \notin DOMAIN eventFuncs)
              => /\ written = <<>>
                 /\ errs = <<"Webhook Event not registered">>
                 /\ ~VerifyRan /\ macInput = NoMac ]_vars

C16_Witness ==
    /\ pc = "done"
    /\ req.event = ""
    /\ secret = <<"k">>
    /\ req.signature = AlterLast(Sign(<<"k">>, req.body))
    /\ written = <<400>>

C16_WitnessUnregistered ==
    /\ pc = "done"
    /\ req.event = "ping"
    /\ "ping" \notin DOMAIN eventFuncs
    /\ secret = <<"k">>
    /\ req.signature = AlterLast(Sign(<<"k">>, req.body))
    /\ written = <<>>

SomeMACIs(key, suffix) ==
    \E p \in PayloadInScope : HmacEqual(suffix, ExpectedMAC(key, p))

SomeMACIsNot(key, suffix) ==
    \E p \in PayloadInScope : ~HmacEqual(suffix, ExpectedMAC(key, p))

\* C19: with a non-empty secret, what verifySignature does with a signature
\* of at least five characters is fixed by the secret and the characters
\* after the fifth: it accepts only when these are the hex MAC of the bytes
\* it MACed, it rejects only when they are not, and (looked at for the
\* requests for "ping" on the registry with every handler) it can accept
\* exactly when some MAC is these characters and can reject exactly when
\* some MAC is not.  The first five characters take no part.
C19_PrefixNotValidated ==
    /\ (/\ VerifyRan
        /\ Len(secret) > 0
        /\ Len(req.signature) >= PrefixLen)
          => /\ pc # "panic"
             /\ VerifySucceeded
                   => /\ macInput \in PayloadInScope
                      /\ HmacEqual(StripPrefix(req.signature),
                                   ExpectedMAC(secret, macInput))
             /\ VerifyFailed
                   => /\ errs = <<HMACFailedErr>>
                      /\ SomeMACIsNot(secret, StripPrefix(req.signature))
    /\ (/\ pc = "verifySignature"
        /\ Len(secret) > 0
        /\ Len(req.signature) >= PrefixLen
        /\ gitHubEvent = "ping"
        /\ DOMAIN eventFuncs = DOMAIN Registrable)
          => /\ (ENABLED (verifySignature /\ pc' = "readPayload"))
                   <=> SomeMACIs(secret, StripPrefix(req.signature))
             /\ (ENABLED (verifySignature /\ pc' = "done"))
                   <=> SomeMACIsNot(secret, StripPrefix(req.signature))

C19_Witness ==
    /\ pc = "readPayload"
    /\ Len(secret) > 0
    /\ SubSeq(req.signature, 1, PrefixLen) = OtherPrefix
    /\ macInput # NoMac
    /\ written = <<>>
    /\ errs = <<>>

\* The ways ParsePayload ends for request r when it runs alone on the
\* registry: what UnsignedOutcome gives when no MAC is compared or the MAC
\* matches, 403 when the signature is missing or the MAC differs, a panic for
\* a signature of one to four characters.
AloneOutcomes(r) ==
    LET u == UnsignedOutcome(r)
        passed   == [ended |-> "done", written |-> u.written,
                     invoked |-> u.invoked]
        rejected == [ended |-> "done", written |-> <<403>>, invoked |-> <<>>]
        panicked == [ended |-> "panic", written |-> <<>>, invoked |-> <<>>]
        suffix   == StripPrefix(r.signature)
    IN  IF r.event = "" \/ r.event \notin DOMAIN eventFuncs \/ Len(secret) = 0
        THEN {passed}
        ELSE IF Len(r.signature) = 0 THEN {rejected}
        ELSE IF Len(r.signature) < PrefixLen THEN {panicked}
        ELSE {o \in {passed} : SomeMACIs(secret, suffix)}
             \cup {o \in {rejected} : SomeMACIsNot(secret, suffix)}

\* A run of ParsePayload alone ends in one of AloneOutcomes.
AloneOutcomesOfSpec ==
    Finished => OutcomeOf(Current) \in AloneOutcomes(req)

\* C17: no step of ParsePayload changes hook.secret or hook.eventFuncs, and
\* with two invocations on one registry interleaved in every way each ends
\* in one of the ways it ends when it runs alone.
C17_InvocationsIndependent ==
    [][ /\ registry' = registry
        /\ Finished => OutcomeOf(Current) \in AloneOutcomes(req)
        /\ parked.pc \in {"done", "panic"}
              => OutcomeOf(parked) \in AloneOutcomes(parked.req) ]_vars

C17_Witness ==
    /\ pc = "done"
    /\ req.event = "ping"
    /\ Len(calls) = 1
    /\ Len(secret) > 0
    /\ parked.pc = "readPayload"
    /\ parked.req.event = "x_custom"
    /\ parked.req # req

=============================================================================
